---- MODULE Spec2Model ----
(***************************************************************************)
(* bls::PrivateKey (src/src/privatekey.cpp): the secret scalar held in     *)
(* secure storage, its lifecycle (construct, copy, move, assign, destroy)  *)
(* and the scalar-level operations built on it.                            *)
(*                                                                         *)
(* Objects live in numbered slots.  A slot is either not constructed       *)
(* (alive = FALSE) or holds a PrivateKey whose member keydata is NULL or   *)
(* the address of a storage cell obtained from Util::SecAlloc.  The heap   *)
(* is the set of cells currently allocated plus the bn_t each one holds.   *)
(* Every operation is one atomic action (the code is synchronous) and      *)
(* leaves its outcome in `last`: the exception it threw, if any, the       *)
(* value it returned and the slot of the key it returned.                  *)
(***************************************************************************)
EXTENDS Integers, Sequences, FiniteSets, TLC

\* ------------------------------------------------------------------ bounds
\* Number of PrivateKey objects that can exist at the same time.
NumKeys == 2
\* Scaled-down PrivateKey::PRIVATE_KEY_SIZE (32 in the library).
PRIVATE_KEY_SIZE == 2
\* Scaled-down number of values of a uint8_t (256 in the library).
ByteBase == 2
\* Scaled-down group order r, the value g1_get_ord returns.
Order == 2

Keys == 1..NumKeys
\* One more cell than keys: the temporary of FromBytes / Aggregate.
Cells == 1..(NumKeys + 1)
NULL == 0
\* No key returned.
NoKey == NULL

RECURSIVE Pow(_, _)
Pow(b, e) == IF e = 0 THEN 1 ELSE b * Pow(b, e - 1)

Byte == 0..(ByteBase - 1)
BytesOfLen(n) == [1..n -> Byte]
\* The unsigned integer a buffer represents, big-endian: the sum of
\* bytes[i] * ByteBase^(Len - i).
RECURSIVE DigitSum(_, _)
DigitSum(bytes, i) ==
    IF i > Len(bytes) THEN 0
    ELSE bytes[i] * Pow(ByteBase, Len(bytes) - i) + DigitSum(bytes, i + 1)
BEValue(bytes) == DigitSum(bytes, 1)

\* Buffers handed to FromBytes: every buffer of the right size whose value is
\* at most 2r + 1 (values below r, r itself, values between r and 2r, and
\* values from 2r on), and one buffer of each wrong size next to it (empty,
\* one short, one long); the content of a buffer of the wrong size is never
\* read.
InputBytes ==
    {b \in BytesOfLen(PRIVATE_KEY_SIZE) : BEValue(b) <= 2 * Order + 1}
        \cup {[i \in 1..n |-> ByteBase - 1]
               : n \in {0, PRIVATE_KEY_SIZE - 1, PRIVATE_KEY_SIZE + 1}}
\* Output buffer pointers handed to Serialize(uint8_t*).
Buffers == {"null", "valid"}
\* The group element handed to operator* and GetG2Power (G1 and G2 are both
\* groups of order r, written as Z_r): the inverse of the generator.
Elems == {Order - 1}
Msgs == {0, 1}

\* ------------------------------------------------------------- exceptions
NoError == "none"
ErrSize == "invalid_argument: PrivateKey::FromBytes: Invalid size"
ErrOrder == "invalid_argument: PrivateKey byte data must be less than the group order"
ErrUninit == "runtime_error: PrivateKey::CheckKeyData keydata not initialized"
ErrLength == "length_error: Number of private keys must be at least 1"
ErrBuffer == "runtime_error: PrivateKey::Serialize buffer invalid"

VARIABLES alive, keydata, cellLive, scalar, corrupt, last
vars == <<alive, keydata, cellLive, scalar, corrupt, last>>

\* A call: the operation and, for FromBytes, its arguments.
Call(name) == [name |-> name, bytes |-> <<>>, modOrder |-> FALSE]
CallFromBytes(bytes, modOrder) ==
    [name |-> "FromBytes", bytes |-> bytes, modOrder |-> modOrder]

\* What the last call did: the exception thrown (or none), the value
\* returned as a sequence of numbers, and the slot of the key returned.
Outcome(op, err, out, ret) == [op |-> op, err |-> err, out |-> out, ret |-> ret]

\* ----------------------------------------------- the arithmetic provider
\* bn_read_bin: big-endian bytes to integer.
RECURSIVE bn_read_bin(_)
bn_read_bin(bytes) ==
    IF Len(bytes) = 0 THEN 0
    ELSE bn_read_bin(SubSeq(bytes, 1, Len(bytes) - 1)) * ByteBase
             + bytes[Len(bytes)]

\* bn_write_bin: integer to len big-endian bytes, zero-padded on the left.
bn_write_bin(len, v) ==
    [i \in 1..len |-> (v \div Pow(ByteBase, len - i)) % ByteBase]

\* bn_cmp: RLC_GT = 1, RLC_EQ = 0, RLC_LT = -1.
bn_cmp(a, b) == IF a > b THEN 1 ELSE IF a = b THEN 0 ELSE -1

bn_mod_basic(a, m) == a % m

\* g1_mul_gen / g2_mul_gen: the generator is the element 1 of Z_r.
mul_gen(k) == k % Order
\* g1_mul / g2_mul.
mul(a, k) == (a * k) % Order
\* ep2_map_dst: hash of (msg, dst) to a point of G2.
ep2_map_dst(msg) == (msg + 1) % Order

\* --------------------------------------------------------- secure storage
CheckKeyData(k) == keydata[k] # NULL

FreeCells == Cells \ cellLive
\* Util::SecAlloc: the allocator hands out a cell that is not in use.
SecAlloc == CHOOSE c \in FreeCells : \A d \in FreeCells : c <= d
\* The slot a newly constructed object occupies.
NewSlot == CHOOSE k \in Keys : ~alive[k] /\ \A j \in Keys : ~alive[j] => k <= j
HasSlot == \E k \in Keys : ~alive[k]
HasCell == FreeCells # {}

\* The scalar a key reads through its handle.
Value(k) == scalar[keydata[k]]

\* DeallocateKeyData on handle h, as its effect on the heap: the set of
\* live cells, the cell contents, and whether a cell was freed twice.
FreeLive(h, live) == IF h # NULL THEN live \ {h} ELSE live
FreeScalar(h, sc) == IF h # NULL THEN [sc EXCEPT ![h] = 0] ELSE sc
FreeCorrupt(h, live, co) == IF h # NULL /\ h \notin live THEN TRUE ELSE co

Init ==
    /\ alive = [k \in Keys |-> FALSE]
    /\ keydata = [k \in Keys |-> NULL]
    /\ cellLive = {}
    /\ scalar = [c \in Cells |-> 0]
    /\ corrupt = FALSE
    /\ last = Outcome(Call("Init"), NoError, <<>>, NoKey)

Throw(op, err) ==
    /\ last' = Outcome(op, err, <<>>, NoKey)
    /\ UNCHANGED <<alive, keydata, cellLive, scalar, corrupt>>

\* Unwind with a destructor that does not release the local's storage.
Unwind_Leak(op, err, c) ==
    /\ cellLive' = cellLive \cup {c}
    /\ last' = Outcome(op, err, <<>>, NoKey)
    /\ UNCHANGED <<alive, keydata, scalar, corrupt>>

\* An exception leaves a function whose local PrivateKey owns cell c (just
\* allocated): stack unwinding runs ~PrivateKey on the local, which releases c.
Unwind(op, err, c) ==
    /\ cellLive' = FreeLive(c, cellLive \cup {c})
    /\ scalar' = FreeScalar(c, scalar)
    /\ corrupt' = FreeCorrupt(c, cellLive \cup {c}, corrupt)
    /\ last' = Outcome(op, err, <<>>, NoKey)
    /\ UNCHANGED <<alive, keydata>>

\* A function returns its local PrivateKey, which owns the fresh cell c
\* holding v, into a new object of the caller.
ReturnKey(op, c, v) ==
    /\ HasSlot
    /\ alive' = [alive EXCEPT ![NewSlot] = TRUE]
    /\ keydata' = [keydata EXCEPT ![NewSlot] = c]
    /\ cellLive' = cellLive \cup {c}
    /\ scalar' = [scalar EXCEPT ![c] = v]
    /\ last' = Outcome(op, NoError, <<>>, NewSlot)
    /\ UNCHANGED corrupt

\* The check FromBytes makes when modOrder is false: TRUE when it throws.
NotLessThanOrder(v) == bn_cmp(v, Order) > 0

\* FromBytes without the reduction modulo the order.
FromBytes_NoReduce(bytes, modOrder) ==
    IF Len(bytes) # PRIVATE_KEY_SIZE
    THEN Throw(CallFromBytes(bytes, modOrder), ErrSize)
    ELSE /\ HasCell
         /\ LET c == SecAlloc
                v == bn_read_bin(bytes)
                op == CallFromBytes(bytes, modOrder)
            IN  IF modOrder
                THEN ReturnKey(op, c, v)
                ELSE IF NotLessThanOrder(v)
                     THEN Unwind(op, ErrOrder, c)
                     ELSE ReturnKey(op, c, v)

\* PrivateKey::FromBytes(bytes, modOrder)
FromBytes(bytes, modOrder) ==
    IF Len(bytes) # PRIVATE_KEY_SIZE
    THEN Throw(CallFromBytes(bytes, modOrder), ErrSize)
    ELSE /\ HasCell
         /\ LET c == SecAlloc
                v == bn_read_bin(bytes)
                op == CallFromBytes(bytes, modOrder)
            IN  IF modOrder
                THEN ReturnKey(op, c, bn_mod_basic(v, Order))
                ELSE IF NotLessThanOrder(v)
                     THEN Unwind(op, ErrOrder, c)
                     ELSE ReturnKey(op, c, v)

\* PrivateKey::PrivateKey(): AllocateKeyData zeroes the new scalar.
DefaultConstruct ==
    /\ HasCell
    /\ ReturnKey(Call("PrivateKey()"), SecAlloc, 0)

\* A copy constructor that copies the handle instead of the scalar.
CopyConstruct_Shallow(src) ==
    /\ alive[src]
    /\ IF ~CheckKeyData(src)
       THEN Throw(Call("CopyConstruct"), ErrUninit)
       ELSE /\ HasSlot
            /\ alive' = [alive EXCEPT ![NewSlot] = TRUE]
            /\ keydata' = [keydata EXCEPT ![NewSlot] = keydata[src]]
            /\ last' = Outcome(Call("CopyConstruct"), NoError, <<>>, NewSlot)
            /\ UNCHANGED <<cellLive, scalar, corrupt>>

\* PrivateKey::PrivateKey(const PrivateKey&)
CopyConstruct(src) ==
    /\ alive[src]
    /\ IF ~CheckKeyData(src)
       THEN Throw(Call("CopyConstruct"), ErrUninit)
       ELSE /\ HasCell
            /\ ReturnKey(Call("CopyConstruct"), SecAlloc, Value(src))

\* A move constructor that leaves the source its handle.
MoveConstruct_KeepSource(src) ==
    /\ alive[src]
    /\ HasSlot
    /\ alive' = [alive EXCEPT ![NewSlot] = TRUE]
    /\ keydata' = [keydata EXCEPT ![NewSlot] = keydata[src]]
    /\ last' = Outcome(Call("MoveConstruct"), NoError, <<>>, NewSlot)
    /\ UNCHANGED <<cellLive, scalar, corrupt>>

\* PrivateKey::PrivateKey(PrivateKey&&): keydata(std::exchange(k.keydata, nullptr))
MoveConstruct(src) ==
    /\ alive[src]
    /\ HasSlot
    /\ alive' = [alive EXCEPT ![NewSlot] = TRUE]
    /\ keydata' = [keydata EXCEPT ![NewSlot] = keydata[src], ![src] = NULL]
    /\ last' = Outcome(Call("MoveConstruct"), NoError, <<>>, NewSlot)
    /\ UNCHANGED <<cellLive, scalar, corrupt>>

\* PrivateKey::~PrivateKey(): DeallocateKeyData, then the object is gone.
Destructor(k) ==
    /\ alive[k]
    /\ alive' = [alive EXCEPT ![k] = FALSE]
    /\ keydata' = [keydata EXCEPT ![k] = NULL]
    /\ cellLive' = FreeLive(keydata[k], cellLive)
    /\ scalar' = FreeScalar(keydata[k], scalar)
    /\ corrupt' = FreeCorrupt(keydata[k], cellLive, corrupt)
    /\ last' = Outcome(Call("~PrivateKey"), NoError, <<>>, NoKey)

\* A copy-assignment that clears the destination before it checks the source.
CopyAssign_ClearFirst(dst, src) ==
    /\ alive[dst] /\ alive[src]
    /\ IF ~CheckKeyData(dst)
       THEN Throw(Call("CopyAssign"), ErrUninit)
       ELSE IF ~CheckKeyData(src)
       THEN /\ scalar' = [scalar EXCEPT ![keydata[dst]] = 0]
            /\ last' = Outcome(Call("CopyAssign"), ErrUninit, <<>>, NoKey)
            /\ UNCHANGED <<alive, keydata, cellLive, corrupt>>
       ELSE /\ scalar' = [scalar EXCEPT ![keydata[dst]] = Value(src)]
            /\ last' = Outcome(Call("CopyAssign"), NoError, <<>>, NoKey)
            /\ UNCHANGED <<alive, keydata, cellLive, corrupt>>

\* PrivateKey::operator=(const PrivateKey&)
CopyAssign(dst, src) ==
    /\ alive[dst] /\ alive[src]
    /\ IF ~CheckKeyData(dst) \/ ~CheckKeyData(src)
       THEN Throw(Call("CopyAssign"), ErrUninit)
       ELSE /\ scalar' = [scalar EXCEPT ![keydata[dst]] = Value(src)]
            /\ last' = Outcome(Call("CopyAssign"), NoError, <<>>, NoKey)
            /\ UNCHANGED <<alive, keydata, cellLive, corrupt>>

\* A move-assignment that does not release the destination's storage.
MoveAssign_NoRelease(dst, src) ==
    /\ alive[dst] /\ alive[src]
    /\ keydata' = [keydata EXCEPT ![src] = NULL, ![dst] = keydata[src]]
    /\ last' = Outcome(Call("MoveAssign"), NoError, <<>>, NoKey)
    /\ UNCHANGED <<alive, cellLive, scalar, corrupt>>

\* PrivateKey::operator=(PrivateKey&&): DeallocateKeyData() on this, then
\* keydata = std::exchange(other.keydata, nullptr).
MoveAssign(dst, src) ==
    /\ alive[dst] /\ alive[src]
    /\ LET released == [keydata EXCEPT ![dst] = NULL]
       IN  keydata' = [released EXCEPT ![src] = NULL, ![dst] = released[src]]
    /\ cellLive' = FreeLive(keydata[dst], cellLive)
    /\ scalar' = FreeScalar(keydata[dst], scalar)
    /\ corrupt' = FreeCorrupt(keydata[dst], cellLive, corrupt)
    /\ last' = Outcome(Call("MoveAssign"), NoError, <<>>, NoKey)
    /\ UNCHANGED alive

\* An operation that only reads: it returns out and changes no key.
Return(op, out) ==
    /\ last' = Outcome(op, NoError, out, NoKey)
    /\ UNCHANGED <<alive, keydata, cellLive, scalar, corrupt>>

\* PrivateKey::GetG1Element
GetG1Element(k) ==
    /\ alive[k]
    /\ IF ~CheckKeyData(k) THEN Throw(Call("GetG1Element"), ErrUninit)
       ELSE Return(Call("GetG1Element"), <<mul_gen(Value(k))>>)

\* PrivateKey::GetG2Element
GetG2Element(k) ==
    /\ alive[k]
    /\ IF ~CheckKeyData(k) THEN Throw(Call("GetG2Element"), ErrUninit)
       ELSE Return(Call("GetG2Element"), <<mul_gen(Value(k))>>)

\* operator*(const G1Element&, const PrivateKey&)
MulG1(a, k) ==
    /\ alive[k]
    /\ IF ~CheckKeyData(k) THEN Throw(Call("MulG1"), ErrUninit)
       ELSE Return(Call("MulG1"), <<mul(a, Value(k))>>)

\* operator*(const G2Element&, const PrivateKey&)
MulG2(a, k) ==
    /\ alive[k]
    /\ IF ~CheckKeyData(k) THEN Throw(Call("MulG2"), ErrUninit)
       ELSE Return(Call("MulG2"), <<mul(a, Value(k))>>)

\* PrivateKey::GetG2Power
GetG2Power(k, element) ==
    /\ alive[k]
    /\ IF ~CheckKeyData(k) THEN Throw(Call("GetG2Power"), ErrUninit)
       ELSE Return(Call("GetG2Power"), <<mul(element, Value(k))>>)

\* The left fold of Aggregate's loop from index i on, acc being *ret.keydata:
\* the sum reached, or -1 when privateKeys[i].CheckKeyData() throws.
RECURSIVE AggregateLoop(_, _, _)
AggregateLoop(privateKeys, i, acc) ==
    IF i > Len(privateKeys) THEN acc
    ELSE IF ~CheckKeyData(privateKeys[i]) THEN -1
    ELSE AggregateLoop(privateKeys, i + 1,
                       bn_mod_basic(acc + Value(privateKeys[i]), Order))

\* PrivateKey::Aggregate(privateKeys)
Aggregate(privateKeys) ==
    /\ \A i \in 1..Len(privateKeys) : alive[privateKeys[i]]
    /\ IF Len(privateKeys) = 0
       THEN Throw(Call("Aggregate"), ErrLength)
       ELSE IF ~CheckKeyData(privateKeys[1])
       THEN \* the copy constructor of ret throws before it allocates
            Throw(Call("Aggregate"), ErrUninit)
       ELSE \* ret owns a fresh cell, so ret.CheckKeyData() passes
            /\ HasCell
            /\ LET sum == AggregateLoop(privateKeys, 2, Value(privateKeys[1]))
               IN  IF sum = -1
                   THEN Unwind(Call("Aggregate"), ErrUninit, SecAlloc)
                   ELSE ReturnKey(Call("Aggregate"), SecAlloc, sum)

\* PrivateKey::IsZero
IsZero(k) ==
    /\ alive[k]
    /\ IF ~CheckKeyData(k) THEN Throw(Call("IsZero"), ErrUninit)
       ELSE Return(Call("IsZero"), <<IF Value(k) = 0 THEN 1 ELSE 0>>)

\* operator==(const PrivateKey&, const PrivateKey&)
OperatorEq(a, b) ==
    /\ alive[a] /\ alive[b]
    /\ IF ~CheckKeyData(a) \/ ~CheckKeyData(b)
       THEN Throw(Call("operator=="), ErrUninit)
       ELSE Return(Call("operator=="),
                   <<IF bn_cmp(Value(a), Value(b)) = 0 THEN 1 ELSE 0>>)

\* PrivateKey::Serialize(uint8_t *buffer)
Serialize(name, k, buffer) ==
    IF buffer = "null" THEN Throw(Call(name), ErrBuffer)
    ELSE IF ~CheckKeyData(k) THEN Throw(Call(name), ErrUninit)
    ELSE Return(Call(name), bn_write_bin(PRIVATE_KEY_SIZE, Value(k)))

SerializeBuffer(k, buffer) ==
    /\ alive[k]
    /\ Serialize("Serialize(buffer)", k, buffer)

\* PrivateKey::Serialize(): Serialize(data.data()) on a vector of
\* PRIVATE_KEY_SIZE bytes.
SerializeVector(k) ==
    /\ alive[k]
    /\ Serialize("Serialize()", k, "valid")

\* PrivateKey::SignG2
SignG2(k, msg) ==
    /\ alive[k]
    /\ IF ~CheckKeyData(k) THEN Throw(Call("SignG2"), ErrUninit)
       ELSE Return(Call("SignG2"), <<mul(ep2_map_dst(msg), Value(k))>>)

\* Vectors of distinct existing keys.
KeyVectors ==
    UNION {{v \in [1..n -> Keys] : \A i, j \in 1..n : i # j => v[i] # v[j]}
           : n \in 0..NumKeys}

Next ==
    \/ \E bytes \in InputBytes, modOrder \in BOOLEAN : FromBytes(bytes, modOrder)
    \/ DefaultConstruct
    \/ \E src \in Keys : CopyConstruct(src)
    \/ \E src \in Keys : MoveConstruct(src)
    \/ \E k \in Keys : Destructor(k)
    \/ \E dst \in Keys, src \in Keys : CopyAssign(dst, src)
    \/ \E dst \in Keys, src \in Keys : MoveAssign(dst, src)
    \/ \E k \in Keys : GetG1Element(k)
    \/ \E k \in Keys : GetG2Element(k)
    \/ \E a \in Elems, k \in Keys : MulG1(a, k)
    \/ \E a \in Elems, k \in Keys : MulG2(a, k)
    \/ \E k \in Keys, element \in Elems : GetG2Power(k, element)
    \/ \E privateKeys \in KeyVectors : Aggregate(privateKeys)
    \/ \E k \in Keys : IsZero(k)
    \/ \E a \in Keys, b \in Keys : OperatorEq(a, b)
    \/ \E k \in Keys, buffer \in Buffers : SerializeBuffer(k, buffer)
    \/ \E k \in Keys : SerializeVector(k)
    \/ \E k \in Keys, msg \in Msgs : SignG2(k, msg)

Spec == Init /\ [][Next]_vars

\* ------------------------------------------------------------ properties
\* A key whose storage is present.
Valid(k) == alive[k] /\ keydata[k] # NULL
\* A key that exists and whose storage is absent (moved from).
Absent(k) == alive[k] /\ keydata[k] = NULL
\* The cells owned by the keys that exist.
Owned == {keydata[k] : k \in {j \in Keys : Valid(j)}}

RECURSIVE SumOfValues(_, _)
SumOfValues(ks, i) ==
    IF i > Len(ks) THEN 0 ELSE Value(ks[i]) + SumOfValues(ks, i + 1)

\* C1: every key whose storage is present holds a scalar strictly less than
\* the group order r.
C1_ScalarBelowOrder ==
    \A k \in Keys : Valid(k) => Value(k) < Order

\* C2: FromBytes(b, modOrder = false) on a buffer of the right size whose
\* value is >= r (r itself included) throws the "must be less than the group
\* order" error and returns no key; with modOrder = true it never fails.
C2_NotLessThanOrderRejected ==
    (/\ last.op.name = "FromBytes"
     /\ Len(last.op.bytes) = PRIVATE_KEY_SIZE
     /\ BEValue(last.op.bytes) >= Order)
    => IF last.op.modOrder
       THEN last.err = NoError /\ last.ret # NoKey
       ELSE last.err = ErrOrder /\ last.ret = NoKey

\* C3: Serialize() called on the key FromBytes(b, modOrder) has just returned
\* gives b itself when modOrder is false and int(b) < r, and the
\* PRIVATE_KEY_SIZE-byte big-endian encoding of int(b) mod r when modOrder is
\* true.
C3_RoundTrip ==
    [][(/\ last.op.name = "FromBytes"
        /\ last.err = NoError
        /\ SerializeVector(last.ret))
       => /\ last'.err = NoError
          /\ Len(last'.out) = PRIVATE_KEY_SIZE
          /\ \A i \in 1..Len(last'.out) : last'.out[i] \in Byte
          /\ (~last.op.modOrder /\ BEValue(last.op.bytes) < Order)
                => last'.out = last.op.bytes
          /\ last.op.modOrder
                => BEValue(last'.out) = BEValue(last.op.bytes) % Order]_vars

\* FromBytes has just decoded a buffer of value in 1..r-1 without reduction,
\* and the key it returned is there to be serialized.
C3_Witness ==
    /\ last.op.name = "FromBytes"
    /\ last.err = NoError
    /\ ~last.op.modOrder
    /\ BEValue(last.op.bytes) \in 1..(Order - 1)
    /\ Valid(last.ret)

\* A step in which some operation that reads the scalar is called on key k,
\* Serialize(uint8_t*) being handed the given buffer.
ReadsScalar(k, buffer) ==
    \/ GetG1Element(k)
    \/ GetG2Element(k)
    \/ \E a \in Elems : MulG1(a, k) \/ MulG2(a, k) \/ GetG2Power(k, a)
    \/ IsZero(k)
    \/ \E b \in Keys : OperatorEq(k, b) \/ OperatorEq(b, k)
    \/ SerializeBuffer(k, buffer)
    \/ SerializeVector(k)
    \/ \E msg \in Msgs : SignG2(k, msg)
    \/ CopyConstruct(k)

HeapUnchanged == UNCHANGED <<cellLive, scalar, corrupt>>

\* The names under which the operations of ReadsScalar leave their outcome.
ReadNames ==
    {"GetG1Element", "GetG2Element", "MulG1", "MulG2", "GetG2Power", "IsZero",
     "operator==", "Serialize(buffer)", "Serialize()", "SignG2", "CopyConstruct"}

C5_NoSharedStorage ==
    /\ \A a, b \in Keys : (Valid(a) /\ Valid(b) /\ a # b) => keydata[a] # keydata[b]
    /\ \A k \in Keys : Valid(k) => keydata[k] \in cellLive

\* A copy has just been made: the source and the copy both hold storage.
C5_Witness ==
    /\ last.op.name = "CopyConstruct"
    /\ last.err = NoError
    /\ \E k \in Keys : k # last.ret /\ Valid(k) /\ Valid(last.ret)

\* C6: an operation that reads the scalar throws the "keydata not
\* initialized" error whenever one of its PrivateKey operands has no storage,
\* whatever its other arguments are, and changes nothing.
C6_CheckedFirst ==
    [][/\ last'.op.name \in ReadNames =>
            \A k \in Keys, buffer \in Buffers :
               (Absent(k) /\ ReadsScalar(k, buffer))
               => last'.err = ErrUninit /\ HeapUnchanged
       /\ last'.op.name = "CopyAssign" =>
            \A dst \in Keys, src \in Keys :
               ((Absent(dst) \/ Absent(src)) /\ CopyAssign(dst, src))
               => last'.err = ErrUninit /\ HeapUnchanged
       /\ last'.op.name = "Aggregate" =>
            \A ks \in KeyVectors :
               ((\E i \in 1..Len(ks) : Absent(ks[i])) /\ Aggregate(ks))
               => last'.err = ErrUninit /\ HeapUnchanged]_vars

\* C7: Aggregate of a non-empty vector of valid keys returns a new key on a
\* cell of its own whose scalar is the sum of the inputs' scalars modulo r
\* (so the same for every order of the inputs, and the key itself for a single
\* input), leaving every input as it was; Aggregate of the empty vector
\* throws the length error and returns no key.
C7_AggregateSum ==
    [][last'.op.name = "Aggregate" =>
       \A ks \in KeyVectors :
         Aggregate(ks) =>
            IF Len(ks) = 0
            THEN last'.err = ErrLength /\ last'.ret = NoKey
            ELSE (\A i \in 1..Len(ks) : Valid(ks[i]))
                 => /\ last'.err = NoError
                    /\ alive'[last'.ret] /\ ~alive[last'.ret]
                    /\ keydata'[last'.ret] # NULL
                    /\ keydata'[last'.ret] \notin cellLive
                    /\ scalar'[keydata'[last'.ret]] = SumOfValues(ks, 1) % Order
                    /\ Len(ks) = 1 => scalar'[keydata'[last'.ret]] = Value(ks[1])
                    /\ \A i \in 1..Len(ks) :
                          /\ keydata'[ks[i]] = keydata[ks[i]]
                          /\ scalar'[keydata[ks[i]]] = Value(ks[i])]_vars

\* C8: when an operation throws, every key that existed before the call has
\* the storage and the scalar it had, and no key is returned.
C8_ErrorLeavesKeys ==
    [][last'.err # NoError
       => /\ alive' = alive
          /\ keydata' = keydata
          /\ \A k \in Keys : Valid(k) => scalar'[keydata[k]] = Value(k)
          /\ last'.ret = NoKey]_vars

\* An assignment has thrown while a key holding a non-zero scalar exists.
C8_Witness ==
    /\ last.op.name = "CopyAssign"
    /\ last.err = ErrUninit
    /\ \E k \in Keys : Valid(k) /\ Value(k) # 0

\* C9: the cells in use are exactly the cells the existing keys own, each
\* owned by one key, and no cell was released twice; so a cell is released
\* only with its owner, the temporaries of FromBytes and Aggregate are
\* released when these throw, and no cell is in use once no key exists.
C9_StorageAccounting ==
    /\ ~corrupt
    /\ cellLive = Owned
    /\ Cardinality(Owned) = Cardinality({k \in Keys : Valid(k)})
    /\ (\A k \in Keys : ~alive[k]) => cellLive = {}

\* FromBytes has thrown the group-order error after allocating its
\* temporary key.
C9_Witness ==
    /\ last.op.name = "FromBytes"
    /\ last.err = ErrOrder
    /\ \E k \in Keys : Valid(k)

\* C10: copy-assignment between two valid keys leaves the destination on its
\* cell, holding the source's scalar, allocates and releases nothing and
\* leaves the source as it was; with an operand without storage it throws
\* "keydata not initialized" and changes nothing.  Move-assignment never
\* throws: it releases the destination's cell, hands the source's cell to
\* the destination and leaves the source without storage.
C10_Assignment ==
    [][/\ last'.op.name = "CopyAssign" =>
            \A dst \in Keys, src \in Keys :
               CopyAssign(dst, src)
               => IF Valid(dst) /\ Valid(src)
                  THEN /\ last'.err = NoError
                       /\ keydata' = keydata /\ alive' = alive
                       /\ cellLive' = cellLive /\ corrupt' = corrupt
                       /\ scalar'[keydata[dst]] = Value(src)
                       /\ \A c \in Cells :
                             c # keydata[dst] => scalar'[c] = scalar[c]
                  ELSE /\ last'.err = ErrUninit
                       /\ UNCHANGED <<alive, keydata, cellLive, scalar, corrupt>>
       /\ last'.op.name = "MoveAssign" =>
            \A dst \in Keys, src \in Keys :
               MoveAssign(dst, src)
               => /\ last'.err = NoError
                  /\ alive' = alive
                  /\ Valid(dst) => keydata[dst] \notin cellLive'
                  /\ cellLive' = cellLive \ {keydata[dst]}
                  /\ keydata'[src] = NULL
                  /\ dst # src
                        => /\ keydata'[dst] = keydata[src]
                           /\ Valid(src) => scalar'[keydata[src]] = Value(src)
                  /\ \A k \in Keys :
                        (k # dst /\ k # src) => keydata'[k] = keydata[k]]_vars

\* A valid key has just been move-assigned onto another key, whose own cell
\* was released.
C10_Witness ==
    /\ last.op.name = "MoveAssign"
    /\ \E dst \in Keys, src \in Keys :
          /\ dst # src /\ Valid(dst) /\ Absent(src)
          /\ Cardinality(cellLive) = 1
          /\ Value(dst) # 0
====
